---- MODULE Spec2Model ----
(***************************************************************************)
(* Model of ytmdl/metadata.py: SEARCH_SONG (query expansion, provider      *)
(* fan-out, de-duplication) and _search_tokens (scoring, sorting,          *)
(* release-date promotion, final unwrapping).                              *)
(*                                                                         *)
(* Representation.  A string is the sequence of its whitespace separated   *)
(* words, so str.split() and ' '.join() are the identity on it.  A float   *)
(* score is the exact fraction <<n, d>> with d > 0, so comparisons are     *)
(* exact where the program rounds to binary floats.  A song object is      *)
(* referred to by its index in song_list (its identity), its fields are    *)
(* read from song_list.  A scoring tuple of the list res is a record with  *)
(* the fields song, dist, albumDist, artistDist, weightedDist, a bare song *)
(* is the record with the only field song.                                 *)
(***************************************************************************)
EXTENDS Integers, Sequences, FiniteSets, TLC

VARIABLES pc, search_by, song_name, yt_title, filters, disable_sort,
          metadata_providers, SEARCH_SENSITIVITY, world, pending,
          to_be_sorted, rest, broken_provider_counter, critical, calls,
          song_list, res, ret

vars == <<pc, search_by, song_name, yt_title, filters, disable_sort,
          metadata_providers, SEARCH_SENSITIVITY, world, pending,
          to_be_sorted, rest, broken_provider_counter, critical, calls,
          song_list, res, ret>>

\* ------------------------------------------------------------------ bounds
MaxLen == 3
MaxPad == 10
MaxProviders == 3

\* ------------------------------------------------------- small arithmetic
Min(a, b) == IF a < b THEN a ELSE b

Range(s) == {s[i] : i \in DOMAIN s}

\* python s[a:b] on a sequence, 0-based, end exclusive
Slice(s, a, b) == SubSeq(s, a + 1, Min(b, Len(s)))

Zero == <<0, 1>>

FLess(a, b) == a[1] * b[2] < b[1] * a[2]

FEq(a, b) == a[1] * b[2] = b[1] * a[2]

FGeq(a, b) == ~FLess(a, b)

\* x * 0.7
Times07(x) == <<7 * x[1], 10 * x[2]>>

\* ------------------------------------------------- ytmdl.stringutils
Stopwords == {"the"}

lower(s) == [i \in DOMAIN s |-> IF s[i] = "A" THEN "a" ELSE s[i]]

remove_stopwords(s) == SelectSeq(s, LAMBDA w : w \notin Stopwords)

\* punctuation characters are deleted; a word made of punctuation only
\* becomes empty and is lost at the following split()
StripPunct(w) == CASE w = "(live)" -> "live"
                   [] w \in {"-", "&"} -> ""
                   [] OTHER -> w

remove_punct(s) ==
    SelectSeq([i \in DOMAIN s |-> StripPunct(s[i])], LAMBDA w : w # "")

compute_jaccard(t1, t2) ==
    IF t1 \cup t2 = {} THEN Zero
    ELSE <<Cardinality(t1 \cap t2), Cardinality(t1 \cup t2)>>

\* re.sub(r'\([^)]*\)', '', s): a parenthesised part is one word here
RemoveParens(s) == SelectSeq(s, LAMBDA w : w # "(live)")

\* re.sub(r'&', 'and', s)
AmpToAnd(s) == [i \in DOMAIN s |-> IF s[i] = "&" THEN "and" ELSE s[i]]

\* lines 140-144 and 148-152: the normalisation of the two query strings
NormalizeQuery(s) == remove_punct(remove_stopwords(lower(s)))

\* lines 157-166, 179-188, 193-201: the normalisation of a provider field
NormalizeField(s) ==
    remove_punct(remove_stopwords(AmpToAnd(RemoveParens(lower(s)))))

\* --------------------------------------------------------- release dates
NoneDate == [tag |-> "None", y |-> 0, m |-> 0, d |-> 0]
EmptyDate == [tag |-> "Empty", y |-> 0, m |-> 0, d |-> 0]
DateY(y) == [tag |-> "Y", y |-> y, m |-> 0, d |-> 0]
DateYM(y, m) == [tag |-> "YM", y |-> y, m |-> m, d |-> 0]
DateYMD(y, m, d) == [tag |-> "YMD", y |-> y, m |-> m, d |-> d]
DateYMDT(y, m, d) == [tag |-> "YMDT", y |-> y, m |-> m, d |-> d]

\* release_date is None or release_date == ""
NoDate(rd) == rd.tag \in {"None", "Empty"}

\* len(release_date)
DateLen(rd) == CASE rd.tag = "Y" -> 4
                 [] rd.tag = "YM" -> 7
                 [] rd.tag = "YMD" -> 10
                 [] rd.tag = "YMDT" -> 20
                 [] OTHER -> 0

\* release_date.split('T')[0]
SplitT(rd) == IF rd.tag = "YMDT" THEN [rd EXCEPT !.tag = "YMD"] ELSE rd

\* lines 225-232: the format is chosen by the length of the whole string
DateFormat(rd) == CASE DateLen(rd) = 4 -> "%Y"
                    [] DateLen(rd) = 7 -> "%Y-%m"
                    [] OTHER -> "%Y-%m-%d"

\* datetime.strptime(text, format): missing month and day default to 1
Strptime(rd, format) == CASE format = "%Y" -> <<rd.y, 1, 1>>
                          [] format = "%Y-%m" -> <<rd.y, rd.m, 1>>
                          [] OTHER -> <<rd.y, rd.m, rd.d>>

ParseDate(rd) == Strptime(SplitT(rd), DateFormat(rd))

\* the comparison of line 233 written as >=
DateGreater_OrEqual(a, b) ==
    \/ a[1] > b[1]
    \/ a[1] = b[1] /\ a[2] > b[2]
    \/ a[1] = b[1] /\ a[2] = b[2] /\ a[3] >= b[3]

DateGreater(a, b) ==
    \/ a[1] > b[1]
    \/ a[1] = b[1] /\ a[2] > b[2]
    \/ a[1] = b[1] /\ a[2] = b[2] /\ a[3] > b[3]

\* ------------------------------------------------------- _search_tokens
Window == 10

\* lines 144-146
ytSongNameTokens(name) == Slice(NormalizeQuery(name), 0, 5)

WeightedDist(albumDist, artistDist, dist) ==
    <<65 * albumDist[1] * artistDist[2] * dist[2]
        + 30 * artistDist[1] * albumDist[2] * dist[2]
        + 5 * dist[1] * albumDist[2] * artistDist[2],
      100 * albumDist[2] * artistDist[2] * dist[2]>>

\* line 170
TitleDist(name, song) ==
    compute_jaccard(Range(ytSongNameTokens(name)),
                    Range(NormalizeField(song.track_name)))

\* lines 172-208: the scoring tuple of one surviving song
ScoreSong(name, title, songs, k, dist) ==
    LET song == songs[k]
        ytTitleTokens == Range(NormalizeQuery(title))
        providerSongNameTokens == Range(NormalizeField(song.track_name))
        artistNameTokens == Range(NormalizeField(song.artist_name))
        albumNameTokens == (Range(NormalizeField(song.collection_name))
                               \ providerSongNameTokens) \ artistNameTokens
        artistDist == compute_jaccard(ytTitleTokens, artistNameTokens)
        albumDist == compute_jaccard(ytTitleTokens, albumNameTokens)
    IN IF NormalizeQuery(title) # <<>>
       THEN [song |-> k, dist |-> dist, albumDist |-> albumDist,
             artistDist |-> artistDist,
             weightedDist |-> WeightedDist(albumDist, artistDist, dist)]
       ELSE [song |-> k, dist |-> dist, albumDist |-> Zero,
             artistDist |-> Zero, weightedDist |-> Zero]

\* the floor of line 171 written as >
PassesFloor_Strict(dist, sens) == FLess(sens, dist)

PassesFloor(dist, sens) == FGeq(dist, sens)

\* lines 154-208: the scoring loop, from song k on
RECURSIVE ScoreFrom(_, _, _, _, _, _)
ScoreFrom(name, title, songs, sens, k, acc) ==
    IF k > Len(songs) THEN acc
    ELSE LET dist == TitleDist(name, songs[k])
         IN ScoreFrom(name, title, songs, sens, k + 1,
                      IF PassesFloor(dist, sens)
                      THEN Append(acc, ScoreSong(name, title, songs, k, dist))
                      ELSE acc)

\* the sort key of line 210 without its last component
KeyLess_NoTitle(a, b) ==
    \/ FLess(a.weightedDist, b.weightedDist)
    \/ /\ FEq(a.weightedDist, b.weightedDist)
       /\ \/ FLess(a.albumDist, b.albumDist)
          \/ /\ FEq(a.albumDist, b.albumDist)
             /\ FLess(a.artistDist, b.artistDist)

\* line 210: key (x[4], x[2], x[3], x[1]), compared as python tuples
KeyLess(a, b) ==
    \/ FLess(a.weightedDist, b.weightedDist)
    \/ /\ FEq(a.weightedDist, b.weightedDist)
       /\ \/ FLess(a.albumDist, b.albumDist)
          \/ /\ FEq(a.albumDist, b.albumDist)
             /\ \/ FLess(a.artistDist, b.artistDist)
                \/ /\ FEq(a.artistDist, b.artistDist)
                   /\ FLess(a.dist, b.dist)

\* the stable descending insertion of e: before the first smaller entry
InsertDesc(s, e) ==
    LET smaller == {i \in DOMAIN s : KeyLess(s[i], e)}
        p == IF smaller = {} THEN Len(s) + 1
             ELSE CHOOSE i \in smaller : \A j \in smaller : i <= j
    IN SubSeq(s, 1, p - 1) \o <<e>> \o SubSeq(s, p, Len(s))

\* line 210: list.sort(reverse=True) is stable
RECURSIVE SortDesc(_, _, _)
SortDesc(s, k, acc) ==
    IF k > Len(s) THEN acc ELSE SortDesc(s, k + 1, InsertDesc(acc, s[k]))

Swap(s, i, j) == [s EXCEPT ![i] = s[j], ![j] = s[i]]

ReleaseDate(songs, e) == songs[e.song].release_date

\* the loop body without the swap of line 236
PromoteStep_KeepUndatedTop(songs, r, thr, i) ==
    LET top == ReleaseDate(songs, r[1])
        cur == ReleaseDate(songs, r[i + 1])
        thr1 == IF NoDate(top) THEN Times07(r[i + 1].weightedDist) ELSE thr
    IN IF i >= 10 \/ i = 0
       THEN [res |-> r, thr |-> thr, brk |-> FALSE]
       ELSE IF FLess(r[i + 1].weightedDist, thr1)
       THEN [res |-> r, thr |-> thr1, brk |-> TRUE]
       ELSE IF ~NoDate(cur) /\ ~NoDate(top)
       THEN [res |-> IF DateGreater(ParseDate(top), ParseDate(cur))
                     THEN Swap(r, 1, i + 1) ELSE r,
             thr |-> thr1, brk |-> FALSE]
       ELSE [res |-> r, thr |-> thr1, brk |-> FALSE]

\* lines 216-236: one iteration of the promotion loop, python index i;
\* r is the list, thr is first_item_weighted_dist
PromoteStep(songs, r, thr, i) ==
    LET top == ReleaseDate(songs, r[1])
        cur == ReleaseDate(songs, r[i + 1])
        thr1 == IF NoDate(top) THEN Times07(r[i + 1].weightedDist) ELSE thr
    IN IF i >= Window \/ i = 0
       THEN [res |-> r, thr |-> thr, brk |-> FALSE]
       ELSE IF FLess(r[i + 1].weightedDist, thr1)
       THEN [res |-> r, thr |-> thr1, brk |-> TRUE]
       ELSE IF ~NoDate(cur) /\ ~NoDate(top)
       THEN [res |-> IF DateGreater(ParseDate(top), ParseDate(cur))
                     THEN Swap(r, 1, i + 1) ELSE r,
             thr |-> thr1, brk |-> FALSE]
       ELSE IF NoDate(top)
       THEN [res |-> Swap(r, 1, i + 1), thr |-> thr1, brk |-> FALSE]
       ELSE [res |-> r, thr |-> thr1, brk |-> FALSE]

RECURSIVE PromoteFrom(_, _, _, _)
PromoteFrom(songs, r, thr, i) ==
    IF i >= Len(r) THEN r
    ELSE LET st == PromoteStep(songs, r, thr, i)
         IN IF st.brk THEN st.res
            ELSE PromoteFrom(songs, st.res, st.thr, i + 1)

\* lines 212-236
Promote(songs, r) ==
    IF Len(r) > 0 THEN PromoteFrom(songs, r, Times07(r[1].weightedDist), 0)
    ELSE r

\* lines 239-248: the final loop from python index i on; None.split raises
RECURSIVE FinalFrom(_, _, _)
FinalFrom(songs, r, i) ==
    IF i >= Len(r) THEN [res |-> r, songs |-> songs, exc |-> "none"]
    ELSE LET k == r[i + 1].song
             rd == songs[k].release_date
         IN IF NoDate(rd) /\ i = 0 THEN FinalFrom(songs, r, i + 1)
            ELSE IF rd.tag = "None"
            THEN [res |-> [r EXCEPT ![i + 1] = [song |-> k]],
                  songs |-> songs, exc |-> "AttributeError"]
            ELSE FinalFrom([songs EXCEPT ![k].release_date = SplitT(rd)],
                           [r EXCEPT ![i + 1] = [song |-> k]], i + 1)

\* lines 138-250: the whole function; ret is "sorted_data" when it returns
\* the list res and "raise" when line 248 raises
search_tokens(name, songs, title, sens) ==
    LET scored == ScoreFrom(name, title, songs, sens, 1, <<>>)
        sorted == SortDesc(scored, 1, <<>>)
        final == FinalFrom(songs, Promote(songs, sorted), 0)
    IN [res |-> final.res, song_list |-> final.songs,
        ret |-> IF final.exc = "none" THEN "sorted_data" ELSE "raise"]

\* ------------------------------------------------------------ providers
GET_METADATA_ACTIONS ==
    {"itunes", "gaana", "deezer", "saavn", "lastfm", "musicbrainz", "spotify"}

None == [isNone |-> TRUE, data |-> <<>>]

Some(d) == [isNone |-> FALSE, data |-> d]

Song(t, ar, al, rd, h) ==
    [track_name |-> t, artist_name |-> ar, collection_name |-> al,
     release_date |-> rd, hash |-> h]

R1 == Song(<<"a">>, <<"x">>, <<"y">>, DateY(2001), 1)
R1b == Song(<<"a">>, <<"x">>, <<"y">>, EmptyDate, 1)
R2 == Song(<<"a", "a">>, <<"x">>, <<"y">>, DateYM(2000, 5), 2)
R3 == Song(<<"a">>, <<"z">>, <<"y">>, DateYMDT(2001, 1, 1), 3)

\* what the search of one provider library does for a query in a world: it
\* raises or returns a list
ProviderSearch(w, provider, query) ==
    LET b == IF provider \in DOMAIN w THEN w[provider] ELSE "empty"
    IN CASE b = "raise" -> [raises |-> TRUE, data |-> <<>>]
         [] b = "all" -> [raises |-> FALSE, data |-> <<R3, R1>>]
         [] b = "short" /\ Len(query) = 1 ->
                [raises |-> FALSE, data |-> <<R1>>]
         [] b = "short" /\ Len(query) = 2 ->
                [raises |-> FALSE, data |-> <<R2, R1b>>]
         [] b = "short" /\ Len(query) > 3 ->
                [raises |-> TRUE, data |-> <<>>]
         [] OTHER -> [raises |-> FALSE, data |-> <<>>]

\* lines 31-105: get_from_<provider> returns None when the search raises
get_from(w, provider, query) ==
    LET r == ProviderSearch(w, provider, query)
    IN IF r.raises THEN None ELSE Some(r.data)

\* lines 253-279
filterSongs(data, f) ==
    IF data.isNone THEN data
    ELSE LET match(s) ==
                 /\ (~f[1].isNone => s.artist_name = f[1].data)
                 /\ (~f[2].isNone => s.collection_name = f[2].data)
         IN Some(SelectSeq(data.data, match)
                   \o SelectSeq(data.data, LAMBDA s : ~match(s)))

\* lines 282-290
extend_to_be_sorted_and_rest(provider_data, acc, f) ==
    LET pd == IF f # <<>> THEN filterSongs(provider_data, f)
              ELSE provider_data
    IN IF ~pd.isNone
       THEN [acc EXCEPT !.to_be_sorted = @ \o pd.data, !.rest = @ \o pd.data]
       ELSE acc

\* ----------------------------------------------------------- SEARCH_SONG
\* lines 316-327 and 332-343
Expand(arr, tokens) ==
    IF Len(tokens) > 3
    THEN arr \o (IF Len(tokens) > 5 THEN <<Slice(tokens, 0, 5)>> ELSE <<>>)
             \o <<Slice(tokens, 0, 3), Slice(tokens, 0, 2),
                  Slice(tokens, 0, 1), Slice(tokens, 2, 4)>>
    ELSE arr

\* lines 312-345: the list before set()
QueryNamesArray(sb, title) ==
    LET first == Expand(<<sb>>, sb)
    IN IF title # sb THEN Expand(first, title) ELSE first

\* line 346
search_by_query_names_array(sb, title) == Range(QueryNamesArray(sb, title))

\* lines 351-364: the body of the inner loop for provider number j
ProviderStep(acc, w, providers, f, query, j) ==
    LET provider == providers[j]
        data_provider == get_from(w, provider, query)
    IN IF provider \in GET_METADATA_ACTIONS
       THEN LET called == [acc EXCEPT !.calls = @ \cup {<<query, j>>}]
            IN IF ~data_provider.isNone /\ data_provider.data # <<>>
               THEN extend_to_be_sorted_and_rest(data_provider, called, f)
               ELSE called
       ELSE [acc EXCEPT !.broken_provider_counter = @ + 1]

\* lines 350-364: the inner loop over the providers for one query
RECURSIVE ProviderLoop(_, _, _, _, _, _)
ProviderLoop(acc, w, providers, f, query, j) ==
    IF j > Len(providers) THEN acc
    ELSE ProviderLoop(ProviderStep(acc, w, providers, f, query, j),
                      w, providers, f, query, j + 1)

\* lines 367-374
RECURSIVE DedupFrom(_, _, _, _)
DedupFrom(items, k, to_be_sorted_hash, to_be_sorted_unique) ==
    IF k > Len(items) THEN to_be_sorted_unique
    ELSE IF items[k].hash \notin to_be_sorted_hash
    THEN DedupFrom(items, k + 1, to_be_sorted_hash \cup {items[k].hash},
                   Append(to_be_sorted_unique, items[k]))
    ELSE DedupFrom(items, k + 1, to_be_sorted_hash, to_be_sorted_unique)

\* the loop of lines 369-373 without line 372: no hash is ever recorded
Dedup_NoHashAdded(items) == items

Dedup(items) == DedupFrom(items, 1, {}, <<>>)

\* line 378
AllBroken(counter, providers) == counter = Len(providers)

\* lines 366-399: everything after the loops; critical tells that line 379
\* (logger.critical) was executed, ret names what line 387, 391 or 399
\* returns ("raise" when _search_tokens raises)
AfterLoops(collected, counter, providers, name, title, sens, nosort) ==
    LET unique == Dedup(collected)
        crit == AllBroken(counter, providers)
        ranked == search_tokens(name, unique, title, sens)
    IN IF unique = <<>>
       THEN [to_be_sorted |-> unique, critical |-> crit, ret |-> "None",
             song_list |-> <<>>, res |-> <<>>]
       ELSE IF nosort
       THEN [to_be_sorted |-> unique, critical |-> crit,
             ret |-> "to_be_sorted", song_list |-> unique, res |-> <<>>]
       ELSE [to_be_sorted |-> unique, critical |-> crit, ret |-> ranked.ret,
             song_list |-> ranked.song_list, res |-> ranked.res]

\* ------------------------------------------------------- input domains
RECURSIVE SeqsUpTo(_, _)
SeqsUpTo(S, n) ==
    IF n = 0 THEN {<<>>}
    ELSE LET shorter == SeqsUpTo(S, n - 1)
         IN shorter \cup {Append(s, x) : s \in {t \in shorter : Len(t) = n - 1},
                                         x \in S}

A1 == <<"a">>
A4 == <<"a", "a", "a", "a">>
A6 == <<"a", "a", "a", "a", "a", "a">>

ABCD == <<"a", "b", "c", "d">>

\* (search_by, yt_title)
QueryPairs == {<<A1, A1>>, <<A1, <<>>>>, <<A1, A4>>, <<A4, A4>>, <<A6, A1>>,
               <<ABCD, ABCD>>}

ProviderNames == {"itunes", "deezer", "foo"}

Worlds == [itunes : {"raise", "empty", "short"}, deezer : {"raise", "all"}]

Filters == {<<>>, <<Some(<<"x">>), None>>}

Half == <<1, 2>>

\* ------------------------------------------------ SEARCH_SONG, stepwise
Init ==
    /\ pc = "start"
    /\ \E qp \in QueryPairs :
          /\ search_by = qp[1]
          /\ yt_title = qp[2]
          /\ song_name = qp[1]
    /\ filters \in Filters
    /\ disable_sort \in BOOLEAN
    /\ metadata_providers \in SeqsUpTo(ProviderNames, MaxProviders)
    /\ SEARCH_SENSITIVITY = Half
    /\ world \in Worlds
    /\ pending = {}
    /\ to_be_sorted = <<>>
    /\ rest = <<>>
    /\ broken_provider_counter = 0
    /\ critical = FALSE
    /\ calls = {}
    /\ song_list = <<>>
    /\ res = <<>>
    /\ ret = "running"

\* lines 295-346
ExpandQueries ==
    /\ pc = "start"
    /\ pending' = search_by_query_names_array(search_by, yt_title)
    /\ pc' = "loop"
    /\ UNCHANGED <<search_by, song_name, yt_title, filters, disable_sort,
                   metadata_providers, SEARCH_SENSITIVITY, world,
                   to_be_sorted, rest, broken_provider_counter, critical,
                   calls, song_list, res, ret>>

\* lines 349-364: one iteration of the outer loop; the set is iterated in
\* an order the program does not control
QueryProviders ==
    /\ pc = "loop"
    /\ \E search_by_query \in pending :
          LET acc == ProviderLoop(
                         [to_be_sorted |-> to_be_sorted, rest |-> rest,
                          broken_provider_counter |-> broken_provider_counter,
                          calls |-> calls],
                         world, metadata_providers, filters,
                         search_by_query, 1)
          IN /\ pending' = pending \ {search_by_query}
             /\ to_be_sorted' = acc.to_be_sorted
             /\ rest' = acc.rest
             /\ broken_provider_counter' = acc.broken_provider_counter
             /\ calls' = acc.calls
    /\ UNCHANGED <<pc, search_by, song_name, yt_title, filters, disable_sort,
                   metadata_providers, SEARCH_SENSITIVITY, world, critical,
                   song_list, res, ret>>

\* lines 366-399
Finish ==
    /\ pc = "loop"
    /\ pending = {}
    /\ LET t == AfterLoops(to_be_sorted, broken_provider_counter,
                           metadata_providers, song_name, yt_title,
                           SEARCH_SENSITIVITY, disable_sort)
       IN /\ to_be_sorted' = t.to_be_sorted
          /\ critical' = t.critical
          /\ ret' = t.ret
          /\ song_list' = t.song_list
          /\ res' = t.res
    /\ pc' = "done"
    /\ UNCHANGED <<search_by, song_name, yt_title, filters, disable_sort,
                   metadata_providers, SEARCH_SENSITIVITY, world, pending,
                   rest, broken_provider_counter, calls>>

Next == ExpandQueries \/ QueryProviders \/ Finish

Spec == Init /\ [][Next]_vars

\* ---------------------------------------------- _search_tokens, stepwise
N1 == <<"a", "b">>
N2 == <<"A", "b", "the", "-", "b", "b", "b", "c">>

One == <<1, 1>>

\* (song_name, yt_title, SEARCH_SENSITIVITY)
RankInputs == {<<N1, <<>>, Half>>, <<N1, <<"the">>, Half>>,
               <<N1, <<"x", "y">>, Half>>, <<N2, <<"x", "y">>, Half>>,
               <<N1, <<"x", "y">>, One>>, <<N2, <<>>, One>>}

Tab == <<"A", "b", "(live)">>
Ta == <<"a", "-">>
Tc == <<"c">>

S1 == Song(Tab, <<"x">>, <<"y">>, EmptyDate, 11)
S2 == Song(Tab, <<"x">>, <<"y">>, DateY(2001), 12)
S3 == Song(Tab, <<"z">>, <<"y">>, DateYM(2000, 5), 13)
S4 == Song(Tab, <<"z">>, <<"y">>, DateYMDT(2001, 1, 1), 14)
S5 == Song(Tab, <<"x">>, <<"x", "a", "b">>, DateYMD(1999, 12, 31), 15)
S6 == Song(Tab, <<"x">>, <<"x", "&", "the">>, EmptyDate, 16)
S7 == Song(Tab, <<"z">>, <<"y">>, NoneDate, 17)
S8 == Song(Tc, <<"x">>, <<"y">>, DateYM(2000, 5), 18)
S9 == Song(Ta, <<"x">>, <<"y">>, DateYMD(1999, 12, 31), 19)

Catalogue == {S1, S2, S3, S4, S5, S6, S7, S8, S9}

Pad(n) == [i \in 1..n |-> S2]

RankLists ==
    SeqsUpTo(Catalogue, MaxLen)
        \cup {Pad(n) \o <<r>> : n \in 1..MaxPad, r \in Catalogue}

InitRank ==
    /\ pc = "rank"
    /\ \E inp \in RankInputs :
          /\ song_name = inp[1]
          /\ yt_title = inp[2]
          /\ SEARCH_SENSITIVITY = inp[3]
    /\ song_list \in RankLists
    /\ search_by = <<>>
    /\ filters = <<>>
    /\ disable_sort = FALSE
    /\ metadata_providers = <<>>
    /\ world = [itunes |-> "empty", deezer |-> "empty"]
    /\ pending = {}
    /\ to_be_sorted = <<>>
    /\ rest = <<>>
    /\ broken_provider_counter = 0
    /\ critical = FALSE
    /\ calls = {}
    /\ res = <<>>
    /\ ret = "running"

\* lines 140-208
RankScore ==
    /\ pc = "rank"
    /\ res' = ScoreFrom(song_name, yt_title, song_list, SEARCH_SENSITIVITY,
                        1, <<>>)
    /\ pc' = "scored"
    /\ UNCHANGED <<search_by, song_name, yt_title, filters, disable_sort,
                   metadata_providers, SEARCH_SENSITIVITY, world, pending,
                   to_be_sorted, rest, broken_provider_counter, critical,
                   calls, song_list, ret>>

\* line 210
RankSort ==
    /\ pc = "scored"
    /\ res' = SortDesc(res, 1, <<>>)
    /\ pc' = "sorted"
    /\ UNCHANGED <<search_by, song_name, yt_title, filters, disable_sort,
                   metadata_providers, SEARCH_SENSITIVITY, world, pending,
                   to_be_sorted, rest, broken_provider_counter, critical,
                   calls, song_list, ret>>

\* lines 212-236
RankPromote ==
    /\ pc = "sorted"
    /\ res' = Promote(song_list, res)
    /\ pc' = "promoted"
    /\ UNCHANGED <<search_by, song_name, yt_title, filters, disable_sort,
                   metadata_providers, SEARCH_SENSITIVITY, world, pending,
                   to_be_sorted, rest, broken_provider_counter, critical,
                   calls, song_list, ret>>

\* lines 238-250
RankReturn ==
    /\ pc = "promoted"
    /\ LET final == FinalFrom(song_list, res, 0)
       IN /\ res' = final.res
          /\ song_list' = final.songs
          /\ ret' = IF final.exc = "none" THEN "sorted_data" ELSE "raise"
    /\ pc' = "done"
    /\ UNCHANGED <<search_by, song_name, yt_title, filters, disable_sort,
                   metadata_providers, SEARCH_SENSITIVITY, world, pending,
                   to_be_sorted, rest, broken_provider_counter, critical,
                   calls>>

NextRank == RankScore \/ RankSort \/ RankPromote \/ RankReturn

SpecRank == InitRank /\ [][NextRank]_vars

\* =============================================================== claims
\* ------------------------------------------- helpers of the SEARCH_SONG claims
Recognized(j) == metadata_providers[j] \in GET_METADATA_ACTIONS

Variants == search_by_query_names_array(search_by, yt_title)

AllUnrecognized == \A j \in DOMAIN metadata_providers : ~Recognized(j)

SomeRecognized == \E j \in DOMAIN metadata_providers : Recognized(j)

\* the (variant, provider) pairs whose provider name is in the dispatch table
RecognizedPairs ==
    {<<q, j>> : q \in Variants,
                j \in {i \in DOMAIN metadata_providers : Recognized(i)}}

\* the records the provider calls that succeeded have returned
ReturnedRecords ==
    UNION {Range(get_from(world, metadata_providers[p[2]], p[1]).data) :
               p \in RecognizedPairs}

\* C1: when every configured provider name is unrecognized, SEARCH_SONG ends
\* in the critical branch, not with the plain no-match result, and nothing is
\* ranked, whatever the number of query variants.
C1_AllUnrecognizedIsFatal ==
    (pc = "done" /\ AllUnrecognized) => (critical /\ ret = "None")

\* C2: with at least one recognized provider name, unrecognized names and
\* failing calls are recovered locally: the critical branch is never reached,
\* every pair with a recognized name is queried and the pool holds what the
\* successful calls returned.
C2_FailuresRecoveredLocally ==
    (pc = "done" /\ SomeRecognized) =>
        /\ ~critical
        /\ calls = RecognizedPairs
        /\ ReturnedRecords = Range(rest)
        /\ {r.hash : r \in ReturnedRecords}
               = {to_be_sorted[i].hash : i \in DOMAIN to_be_sorted}

\* the positions of the collected sequence that hold the first record of
\* their identity hash
FirstSeen(s) ==
    {i \in DOMAIN s : \A j \in 1..(i - 1) : s[j].hash # s[i].hash}

\* C6: the pool handed to the ranker, or returned when sorting is disabled,
\* holds exactly the first-seen record of every identity hash of the
\* collected results, in the order of first occurrence.
C6_DedupFirstSeen ==
    pc = "done" =>
        /\ Len(to_be_sorted) = Cardinality(FirstSeen(rest))
        /\ \A i \in FirstSeen(rest) :
               to_be_sorted[Cardinality({j \in FirstSeen(rest) : j <= i})]
                   = rest[i]
        /\ ret = "to_be_sorted" => song_list = to_be_sorted

\* a run in which a later record replaced nothing although it differs from
\* the first-seen record of its hash
C6_Witness ==
    /\ pc = "done"
    /\ ret \in {"to_be_sorted", "sorted_data"}
    /\ \E i, j \in DOMAIN rest :
           i < j /\ rest[i].hash = rest[j].hash /\ rest[i] # rest[j]

\* the variants in the order of their first occurrence in the list
RECURSIVE DistinctFrom(_, _, _)
DistinctFrom(s, k, acc) ==
    IF k > Len(s) THEN acc
    ELSE DistinctFrom(s, k + 1,
                      IF s[k] \in Range(acc) THEN acc ELSE Append(acc, s[k]))

ListOrder == DistinctFrom(QueryNamesArray(search_by, yt_title), 1, <<>>)

RECURSIVE VariantLoop(_, _, _)
VariantLoop(acc, order, k) ==
    IF k > Len(order) THEN acc
    ELSE VariantLoop(ProviderLoop(acc, world, metadata_providers, filters,
                                  order[k], 1),
                     order, k + 1)

\* what SEARCH_SONG returns: the identity hashes of the records, in order
Returned(retv, resv, songs) ==
    CASE retv = "sorted_data" ->
             <<retv, [i \in DOMAIN resv |-> songs[resv[i].song].hash]>>
      [] retv = "to_be_sorted" ->
             <<retv, [i \in DOMAIN songs |-> songs[i].hash]>>
      [] OTHER -> <<retv, <<>>>>

ReturnedInListOrder ==
    LET acc == VariantLoop([to_be_sorted |-> <<>>, rest |-> <<>>,
                            broken_provider_counter |-> 0, calls |-> {}],
                           ListOrder, 1)
        t == AfterLoops(acc.to_be_sorted, acc.broken_provider_counter,
                        metadata_providers, song_name, yt_title,
                        SEARCH_SENSITIVITY, disable_sort)
    IN Returned(t.ret, t.res, t.song_list)

\* C10: the result of SEARCH_SONG is the same for every iteration order of
\* the variant set: it equals the result of the run that takes the variants
\* in the order of the list they were collected in.
C10_OrderIndependent ==
    pc = "done" => Returned(ret, res, song_list) = ReturnedInListOrder

\* ---------------------------------------- helpers of the _search_tokens claims
Sorted ==
    SortDesc(ScoreFrom(song_name, yt_title, song_list, SEARCH_SENSITIVITY,
                       1, <<>>), 1, <<>>)

Ranked == pc \in {"promoted", "done"}

ReturnedList == pc = "done" /\ ret = "sorted_data"

\* a >= 0.7 * b on fractions
Within70(a, b) == 10 * a[1] * b[2] >= 7 * b[1] * a[2]

Dated(e) == song_list[e.song].release_date.tag \in {"Y", "YM", "YMD", "YMDT"}

\* the day a release date stands for: a missing month or day counts as 1
DateNum(e) ==
    LET rd == song_list[e.song].release_date
    IN rd.y * 10000 + (IF rd.tag = "Y" THEN 1 ELSE rd.m) * 100
           + (IF rd.tag \in {"Y", "YM"} THEN 1 ELSE rd.d)

Positions(k) == {i \in DOMAIN res : res[i].song = k}

BelowFloor(k) ==
    LET d == TitleDist(song_name, song_list[k])
    IN d[1] * SEARCH_SENSITIVITY[2] < SEARCH_SENSITIVITY[1] * d[2]

\* C3: a candidate whose title score is strictly below the sensitivity is
\* not in the ranked list; every other candidate is in it exactly once.
C3_RelevanceFloor ==
    Ranked => \A k \in DOMAIN song_list :
                  Cardinality(Positions(k)) = IF BelowFloor(k) THEN 0 ELSE 1

\* a returned list from which a high-scoring candidate was dropped and in
\* which the promotion pass moved a survivor
C3_Witness ==
    /\ ReturnedList
    /\ \E k \in DOMAIN song_list :
           BelowFloor(k) /\ song_list[k].artist_name = <<"x">>
    /\ Len(res) >= 2
    /\ LET s == Sorted IN res[1].song # s[1].song

\* C4: every element of the returned list is a bare record, index 0 included.
C4_AllBare ==
    ReturnedList => \A i \in DOMAIN res : DOMAIN res[i] = {"song"}

\* s is the sorted list of the survivors
C5_Case(s) ==
    /\ Len(s) >= 2
    /\ ~Dated(s[1])
    /\ Dated(s[2])
    /\ Within70(s[2].weightedDist, s[1].weightedDist)

\* C5: an undated top survivor and a dated second survivor within 70% of it:
\* the second survivor is the first entry of the ranked output.
C5_SecondBecomesFirst ==
    ReturnedList =>
        LET s == Sorted IN C5_Case(s) => res[1].song = s[2].song

\* C5 as amended: the first entry is the second survivor or a survivor sorted
\* after it whose release date is strictly earlier.
C5_SecondOrOlderBecomesFirst ==
    Ranked =>
        LET s == Sorted
        IN C5_Case(s) =>
               \/ res[1].song = s[2].song
               \/ \E j \in 3..Len(s) :
                      /\ res[1].song = s[j].song
                      /\ Dated(s[j])
                      /\ DateNum(s[j]) < DateNum(s[2])

C5_Witness ==
    /\ ReturnedList
    /\ LET s == Sorted
       IN /\ C5_Case(s)
          /\ Len(s) >= 3
          /\ res[1].song = s[2].song
          /\ Dated(s[3])

\* the sorted positions the scan reaches when the top survivor is dated
Reached(s, i) ==
    /\ i <= 10
    /\ \A j \in 2..i : Within70(s[j].weightedDist, s[1].weightedDist)

OldestReached(s) ==
    LET cands == {i \in DOMAIN s : Reached(s, i) /\ Dated(s[i])}
    IN CHOOSE i \in cands :
           \A j \in cands :
               \/ DateNum(s[i]) < DateNum(s[j])
               \/ DateNum(s[i]) = DateNum(s[j]) /\ i <= j

NoHint == NormalizeQuery(yt_title) = <<>>

ZeroScores ==
    \A i \in DOMAIN res :
        /\ res[i].albumDist = Zero
        /\ res[i].artistDist = Zero
        /\ res[i].weightedDist = Zero

\* C8: without a hint every scored candidate has albumDist = artistDist =
\* weightedDist = 0 and the ranked output keeps the survivors in input order.
C8_InputOrderKept ==
    NoHint =>
        /\ pc \in {"scored", "sorted", "promoted"} => ZeroScores
        /\ ReturnedList =>
               \A i, j \in DOMAIN res : i < j => res[i].song < res[j].song

\* C8 as amended: without a hint the three scores are 0 and the sort orders
\* the survivors by titleDist descending, equal titleDist in input order.
C8_TitleOrderAfterSort ==
    NoHint =>
        /\ pc \in {"scored", "sorted", "promoted"} => ZeroScores
        /\ pc = "sorted" =>
               \A i, j \in DOMAIN res :
                   i < j =>
                       \/ res[j].dist[1] * res[i].dist[2]
                              < res[i].dist[1] * res[j].dist[2]
                       \/ /\ res[j].dist[1] * res[i].dist[2]
                                 = res[i].dist[1] * res[j].dist[2]
                          /\ res[i].song < res[j].song

C8_Witness ==
    /\ NoHint
    /\ pc = "sorted"
    /\ \E i, j \in DOMAIN res : i < j /\ res[i].song > res[j].song

\* C9: the first entry of the ranked output has a weightedDist of at least
\* 70% of the weightedDist of the top-sorted survivor.
C9_FirstWithin70 ==
    (ReturnedList /\ res # <<>>) =>
        LET s == Sorted
        IN \E i \in DOMAIN s :
               /\ s[i].song = res[1].song
               /\ Within70(s[i].weightedDist, s[1].weightedDist)

====
